---- MODULE Spec2Model ----
(***************************************************************************)
(* Model of src/codegen/codegen_query.py: the command-line program that    *)
(* loads a corpus of file embeddings, embeds a query, scores every corpus  *)
(* record by cosine similarity, sorts the scores in descending order and   *)
(* prints the identifiers of the first `limit` records.                    *)
(*                                                                         *)
(* Numbers.  Embedding components are small integers.  A score is kept     *)
(* exactly, as the record [dot |-> a.b, nn |-> (a.a)*(b.b)], which stands  *)
(* for the real number dot / sqrt(nn); nn = 0 is the 0/0 that numpy        *)
(* evaluates to NaN.  Scores are compared as real numbers, and every       *)
(* comparison with a NaN is false, as for IEEE floats.  Rounding of the    *)
(* float64 arithmetic is not modelled.                                     *)
(*                                                                         *)
(* Identifiers.  file_path values are opaque; the i-th record of a corpus  *)
(* carries the identifier i.                                               *)
(***************************************************************************)
EXTENDS Integers, Sequences, FiniteSets

VARIABLES
    pc,                 \* position of the run in __main__ (lines 83-97)
    query,              \* args.query, a string as a sequence of characters
    limit,              \* args.limit
    queryFileReadable,  \* whether open(args.query) succeeds (the file system)
    embeddings,         \* `embeddings` of __main__, the loaded corpus
    query_text,         \* local query_text of generate_query_embedding
    fileOpened,         \* open(query_text) at line 28 has been called
    modelLoaded,        \* from_pretrained at lines 33-34 has returned
    query_embedding,    \* `query_embedding` of __main__
    scores,             \* local `scores` of find_relevant_files
    results,            \* `results`, the value find_relevant_files returned
    stdout,             \* the lines print() has written, in order
    error               \* which step raised, "none" while nothing did

vars == <<pc, query, limit, queryFileReadable, embeddings, query_text,
          fileOpened, modelLoaded, query_embedding, scores, results,
          stdout, error>>

(***************************************************************************)
(* Bounds of the model.                                                    *)
(***************************************************************************)
\* longest corpus of a whole-program run
MaxCorpus == 3
\* limits of a whole-program run range over -NegLimit .. MaxLimit
MaxLimit == 4
NegLimit == 2
\* longest corpus of a ranking-only run
MaxRankCorpus == 7

(***************************************************************************)
(* Inputs.                                                                 *)
(***************************************************************************)
\* the suffix tested at line 26
TxtSuffix == <<".", "t", "x", "t">>

\* values of --query: "a.txt", ".txt", "a.tx", "txt"
Queries ==
    { <<"a", ".", "t", "x", "t">>, TxtSuffix, <<"a", ".", "t", "x">>,
      <<"t", "x", "t">> }

\* what f.read() returns at line 29: "q" or "b.txt"
FileContents == { <<"q">>, <<"b", ".", "t", "x", "t">> }


\* embeddings of corpus records; <<1>> has the wrong width, <<0, 0>> has
\* magnitude zero, <<9, 1>> is 10 * [0.9, 0.1], <<2, 0>> is 2 * [1, 0]
Vecs == { <<0, 0>>, <<1, 0>>, <<0, 1>>, <<9, 1>>, <<2, 0>>, <<1>> }

\* embeddings the model can return for a query
QueryVecs == { <<1, 0>>, <<-1, 1>>, <<0, 0>> }

\* embeddings of the long corpora of a ranking-only run
RankVecs == { <<0, 0>>, <<1, 0>>, <<1, 1>> }

RankLimits == { -1, 0, 2, 10 }

SeqsUpTo(S, n) == UNION { [1..k -> S] : k \in 0..n }

\* a corpus as json.load returns it: a list of records
MkCorpus(vs) ==
    [k \in 1..Len(vs) |-> [file_path |-> k, embedding |-> vs[k]]]

Corpora == { MkCorpus(vs) : vs \in SeqsUpTo(Vecs, MaxCorpus) }

RankCorpora ==
    { MkCorpus(vs) : vs \in SeqsUpTo(RankVecs, MaxRankCorpus)
                            \cup SeqsUpTo(Vecs, 3) }

(***************************************************************************)
(* str.endswith, line 26.                                                  *)
(***************************************************************************)
EndsWith(s, suffix) ==
    /\ Len(s) >= Len(suffix)
    /\ SubSeq(s, Len(s) - Len(suffix) + 1, Len(s)) = suffix

(***************************************************************************)
(* cosine_similarity, lines 56-57.                                         *)
(***************************************************************************)
RECURSIVE DotFrom(_, _, _)
DotFrom(a, b, k) ==
    IF k > Len(a) THEN 0 ELSE a[k] * b[k] + DotFrom(a, b, k + 1)

\* np.dot of two 1-D arrays of equal length
Dot(a, b) == DotFrom(a, b, 1)

\* np.dot raises ValueError unless the two 1-D arrays have the same length
Aligned(a, b) == Len(a) = Len(b)

\* np.linalg.norm(a) ** 2
NormSq(a) == Dot(a, a)

\* a slip: the product of the norms is replaced by the norm of a alone
cosine_similarity_OneNorm(a, b) == [dot |-> Dot(a, b), nn |-> NormSq(a)]

cosine_similarity(a, b) == [dot |-> Dot(a, b), nn |-> NormSq(a) * NormSq(b)]

\* the score is 0/0
IsNaN(x) == x.nn = 0

\* sign(x) * x^2 of the real number a score stands for, times x.nn
SignedSq(x) == IF x.dot < 0 THEN -(x.dot * x.dot) ELSE x.dot * x.dot

\* x < y on floats: false when either side is NaN
ScoreLT(x, y) ==
    /\ ~IsNaN(x)
    /\ ~IsNaN(y)
    /\ SignedSq(x) * y.nn < SignedSq(y) * x.nn

\* x == y on floats
ScoreEQ(x, y) ==
    /\ ~IsNaN(x)
    /\ ~IsNaN(y)
    /\ SignedSq(x) * y.nn = SignedSq(y) * x.nn

\* x >= y on floats
ScoreGE(x, y) == ScoreLT(y, x) \/ ScoreEQ(x, y)

(***************************************************************************)
(* scores.sort(key=lambda x: x[1], reverse=True), line 68.  A list of      *)
(* fewer than 64 elements is sorted by CPython as one run: the list is     *)
(* reversed, the leading run is found (and reversed when strictly          *)
(* descending), the rest is inserted by binary insertion, and the list is  *)
(* reversed again.  Every decision is one `<` on two keys.                 *)
(***************************************************************************)
\* key=lambda x: x[1]
Key(e) == e[2]

KeyLT(e, f) == ScoreLT(Key(e), Key(f))

Reverse(s) == [k \in 1..Len(s) |-> s[Len(s) + 1 - k]]

\* count_run: the length of the run that starts the list
RECURSIVE RunEnd(_, _, _)
RunEnd(s, k, desc) ==
    IF k > Len(s) THEN Len(s)
    ELSE IF KeyLT(s[k], s[k - 1]) = desc THEN RunEnd(s, k + 1, desc)
    ELSE k - 1

CountRun(s) ==
    IF Len(s) < 2 THEN [n |-> Len(s), descending |-> FALSE]
    ELSE LET desc == KeyLT(s[2], s[1])
         IN  [n |-> RunEnd(s, 3, desc), descending |-> desc]

\* binarysort's search: the slot of pivot in s[l+1 .. r], 0-based l and r
RECURSIVE BinarySearch(_, _, _, _)
BinarySearch(s, pivot, l, r) ==
    LET p == l + ((r - l) \div 2)
        l2 == IF KeyLT(pivot, s[p + 1]) THEN l ELSE p + 1
        r2 == IF KeyLT(pivot, s[p + 1]) THEN p ELSE r
    IN  IF l2 < r2 THEN BinarySearch(s, pivot, l2, r2) ELSE l2

\* binarysort: s[1..start] is the sorted prefix, 0-based start
RECURSIVE BinarySort(_, _)
BinarySort(s, start) ==
    IF start >= Len(s) THEN s
    ELSE LET pivot == s[start + 1]
             l == BinarySearch(s, pivot, 0, start)
             moved == SubSeq(s, 1, l) \o <<pivot>> \o SubSeq(s, l + 1, start)
                         \o SubSeq(s, start + 2, Len(s))
         IN  BinarySort(moved, start + 1)

ListSortReverse(s) ==
    IF Len(s) < 2 THEN s
    ELSE LET rev == Reverse(s)
             run == CountRun(rev)
             lead == IF run.descending
                     THEN Reverse(SubSeq(rev, 1, run.n))
                             \o SubSeq(rev, run.n + 1, Len(rev))
                     ELSE rev
         IN  Reverse(BinarySort(lead, run.n))

(***************************************************************************)
(* scores[:limit], line 71.                                                *)
(***************************************************************************)
SliceTo(s, n) ==
    IF n >= 0
    THEN SubSeq(s, 1, IF n < Len(s) THEN n ELSE Len(s))
    ELSE SubSeq(s, 1, IF Len(s) + n > 0 THEN Len(s) + n ELSE 0)

(***************************************************************************)
(* The run.  __main__ (lines 83-97) calls load_embeddings,                 *)
(* generate_query_embedding and find_relevant_files in this order and      *)
(* then prints.  No exception is caught anywhere: the step that raises     *)
(* ends the run.                                                           *)
(***************************************************************************)
Init ==
    /\ pc = "load_embeddings"
    /\ query \in Queries
    /\ limit \in (0 - NegLimit)..MaxLimit
    /\ queryFileReadable \in BOOLEAN
    /\ embeddings = <<>>
    /\ query_text = <<>>
    /\ fileOpened = FALSE
    /\ modelLoaded = FALSE
    /\ query_embedding = <<>>
    /\ scores = <<>>
    /\ results = <<>>
    /\ stdout = <<>>
    /\ error = "none"

\* an uncaught exception: the traceback goes to stderr, the process exits
Raise(kind) ==
    /\ pc' = "failed"
    /\ error' = kind

\* load_embeddings returns the parsed file (lines 17-22, called at line 86);
\* line 89 then calls generate_query_embedding(args.query, args.model)
LoadEmbeddings ==
    /\ pc = "load_embeddings"
    /\ \E corpus \in Corpora : embeddings' = corpus
    /\ pc' = "read_query"
    /\ query_text' = query
    /\ UNCHANGED <<query, limit, queryFileReadable, fileOpened, modelLoaded,
                   query_embedding, scores, results, stdout, error>>

\* open or json.load raises (lines 19-20)
LoadEmbeddingsFail ==
    /\ pc = "load_embeddings"
    /\ Raise("embeddings")
    /\ UNCHANGED <<query, limit, queryFileReadable, embeddings, query_text,
                   fileOpened, modelLoaded, query_embedding, scores, results,
                   stdout>>

\* a slip: an unreadable file falls back to the string as literal text
ReadQuery_Fallback ==
    /\ pc = "read_query"
    /\ fileOpened' = EndsWith(query_text, TxtSuffix)
    /\ IF EndsWith(query_text, TxtSuffix) /\ queryFileReadable
       THEN \E content \in FileContents : query_text' = content
       ELSE query_text' = query_text
    /\ pc' = "load_model"
    /\ UNCHANGED <<query, limit, queryFileReadable, embeddings, modelLoaded,
                   query_embedding, scores, results, stdout, error>>

\* generate_query_embedding, lines 26-29: the query is read from a file
ReadQuery ==
    /\ pc = "read_query"
    /\ IF EndsWith(query_text, TxtSuffix)
       THEN /\ fileOpened' = TRUE
            /\ IF queryFileReadable
               THEN /\ \E content \in FileContents : query_text' = content
                    /\ pc' = "load_model"
                    /\ error' = error
               ELSE /\ Raise("query_file")
                    /\ query_text' = query_text
       ELSE /\ pc' = "load_model"
            /\ UNCHANGED <<fileOpened, query_text, error>>
    /\ UNCHANGED <<query, limit, queryFileReadable, embeddings, modelLoaded,
                   query_embedding, scores, results, stdout>>

\* generate_query_embedding, lines 33-35: tokenizer and model are loaded
LoadModel ==
    /\ pc = "load_model"
    /\ modelLoaded' = TRUE
    /\ pc' = "embed"
    /\ UNCHANGED <<query, limit, queryFileReadable, embeddings, query_text,
                   fileOpened, query_embedding, scores, results, stdout,
                   error>>

\* from_pretrained raises (lines 33-34)
LoadModelFail ==
    /\ pc = "load_model"
    /\ Raise("model")
    /\ UNCHANGED <<query, limit, queryFileReadable, embeddings, query_text,
                   fileOpened, modelLoaded, query_embedding, scores, results,
                   stdout>>

\* generate_query_embedding, lines 38-54: the forward pass and mean pooling
Embed ==
    /\ pc = "embed"
    /\ \E v \in QueryVecs : query_embedding' = v
    /\ pc' = "score"
    /\ UNCHANGED <<query, limit, queryFileReadable, embeddings, query_text,
                   fileOpened, modelLoaded, scores, results, stdout, error>>

\* the record the loop of line 62 is at
NextItem == embeddings[Len(scores) + 1]

\* a slip: each identifier is printed as soon as its record is scored
ScoreRecord_Printing ==
    /\ pc = "score"
    /\ Len(scores) < Len(embeddings)
    /\ Aligned(query_embedding, NextItem.embedding)
    /\ scores' = Append(scores,
                        <<NextItem.file_path,
                          cosine_similarity(query_embedding,
                                            NextItem.embedding)>>)
    /\ stdout' = Append(stdout, NextItem.file_path)
    /\ UNCHANGED <<pc, query, limit, queryFileReadable, embeddings,
                   query_text, fileOpened, modelLoaded, query_embedding,
                   results, error>>

\* find_relevant_files, lines 62-65: one iteration of the scoring loop
ScoreRecord ==
    /\ pc = "score"
    /\ Len(scores) < Len(embeddings)
    /\ Aligned(query_embedding, NextItem.embedding)
    /\ scores' = Append(scores,
                        <<NextItem.file_path,
                          cosine_similarity(query_embedding,
                                            NextItem.embedding)>>)
    /\ UNCHANGED <<pc, query, limit, queryFileReadable, embeddings,
                   query_text, fileOpened, modelLoaded, query_embedding,
                   results, stdout, error>>

\* a slip: a record of the wrong width gets a score and the loop goes on
ScoreMismatch_Garbage ==
    /\ pc = "score"
    /\ Len(scores) < Len(embeddings)
    /\ ~Aligned(query_embedding, NextItem.embedding)
    /\ scores' = Append(scores, <<NextItem.file_path, [dot |-> 0, nn |-> 1]>>)
    /\ UNCHANGED <<pc, query, limit, queryFileReadable, embeddings,
                   query_text, fileOpened, modelLoaded, query_embedding,
                   results, stdout, error>>

\* line 64 with vectors of different lengths: np.dot raises ValueError
ScoreMismatch ==
    /\ pc = "score"
    /\ Len(scores) < Len(embeddings)
    /\ ~Aligned(query_embedding, NextItem.embedding)
    /\ Raise("dimension")
    /\ UNCHANGED <<query, limit, queryFileReadable, embeddings, query_text,
                   fileOpened, modelLoaded, query_embedding, scores, results,
                   stdout>>

\* find_relevant_files, lines 68-73: sort, slice, return
SortAndReturn ==
    /\ pc = "score"
    /\ Len(scores) = Len(embeddings)
    /\ scores' = ListSortReverse(scores)
    /\ results' = SliceTo(scores', limit)
    /\ pc' = "print"
    /\ UNCHANGED <<query, limit, queryFileReadable, embeddings, query_text,
                   fileOpened, modelLoaded, query_embedding, stdout, error>>

\* lines 96-97: one iteration of the printing loop
PrintLine ==
    /\ pc = "print"
    /\ Len(stdout) < Len(results)
    /\ stdout' = Append(stdout, results[Len(stdout) + 1][1])
    /\ UNCHANGED <<pc, query, limit, queryFileReadable, embeddings,
                   query_text, fileOpened, modelLoaded, query_embedding,
                   scores, results, error>>

\* the loop of line 96 is exhausted: the process exits with status 0
Exit ==
    /\ pc = "print"
    /\ Len(stdout) = Len(results)
    /\ pc' = "done"
    /\ UNCHANGED <<query, limit, queryFileReadable, embeddings, query_text,
                   fileOpened, modelLoaded, query_embedding, scores, results,
                   stdout, error>>

Next ==
    \/ LoadEmbeddings
    \/ LoadEmbeddingsFail
    \/ ReadQuery
    \/ LoadModel
    \/ LoadModelFail
    \/ Embed
    \/ ScoreRecord
    \/ ScoreMismatch
    \/ SortAndReturn
    \/ PrintLine
    \/ Exit

Spec == Init /\ [][Next]_vars

(***************************************************************************)
(* find_relevant_files alone, on longer corpora: the run starts at the     *)
(* call of line 92, after a literal query has been embedded.               *)
(***************************************************************************)
RankInit ==
    /\ pc = "score"
    /\ query = <<"t", "x", "t">>
    /\ limit \in RankLimits
    /\ queryFileReadable = TRUE
    /\ embeddings \in RankCorpora
    /\ query_text = query
    /\ fileOpened = FALSE
    /\ modelLoaded = TRUE
    /\ query_embedding = <<1, 0>>
    /\ scores = <<>>
    /\ results = <<>>
    /\ stdout = <<>>
    /\ error = "none"

RankNext ==
    \/ ScoreRecord
    \/ ScoreMismatch
    \/ SortAndReturn

SpecRank == RankInit /\ [][RankNext]_vars

(***************************************************************************)
(* Vocabulary of the properties.                                           *)
(***************************************************************************)
Min(a, b) == IF a < b THEN a ELSE b

Max(a, b) == IF a > b THEN a ELSE b

\* find_relevant_files has returned
Returned == pc \in {"print", "done"}

\* generate_query_embedding is past lines 26-29
QueryStepDone ==
    \/ pc \in {"load_model", "embed", "score", "print", "done"}
    \/ pc = "failed" /\ error # "embeddings"

\* generate_query_embedding has returned
Embedded ==
    \/ pc \in {"score", "print", "done"}
    \/ pc = "failed" /\ error = "dimension"

PathsOf(s) == [k \in 1..Len(s) |-> s[k][1]]

\* the score of the k-th corpus record against the query
ScoreOf(k) == cosine_similarity(query_embedding, embeddings[k].embedding)

\* the k-th corpus record has a vector as long as the query vector
Matches(k) == Len(embeddings[k].embedding) = Len(query_embedding)

\* the corpus records whose identifier is not in the result
Omitted == { k \in 1..Len(scores) : \A j \in 1..Len(results) :
                 results[j][1] # scores[k][1] }

\* every corpus record is in s exactly once, with its score
HoldsEveryRecordOnce(s) ==
    /\ Len(s) = Len(embeddings)
    /\ \A k \in 1..Len(embeddings) :
          Cardinality({ j \in 1..Len(s) :
              s[j] = <<embeddings[k].file_path, ScoreOf(k)>> }) = 1

\* no element of s is followed by one with a greater score
NoInversion(s) ==
    \A i, j \in 1..Len(s) : i < j => ~ScoreLT(s[i][2], s[j][2])

\* no score of s is undefined
AllDefined(s) == \A k \in 1..Len(s) : ~IsNaN(s[k][2])

(***************************************************************************)
(* C1: for every limit >= 0, find_relevant_files returns exactly           *)
(* min(limit, |corpus|) pairs, and they are the first min(limit, |corpus|) *)
(* elements of the sorted list of all scored corpus records, each record   *)
(* once.                                                                   *)
(***************************************************************************)
C1_PrefixOfSortedCorpus ==
    (Returned /\ limit >= 0) =>
        LET m == Min(limit, Len(embeddings))
        IN  /\ Len(results) = m
            /\ results = SubSeq(scores, 1, m)
            /\ HoldsEveryRecordOnce(scores)
            /\ NoInversion(scores)

\* C1 on the runs in which every score is defined
C1_WhenScoresDefined == AllDefined(scores) => C1_PrefixOfSortedCorpus

(***************************************************************************)
(* C2: for every integer limit, negative ones included, the number of      *)
(* returned entries never exceeds max(limit, 0).                           *)
(***************************************************************************)
C2_AtMostLimit == Returned => Len(results) <= Max(limit, 0)

(***************************************************************************)
(* C3: the returned scores are in descending order, score[i] >= score[j]   *)
(* for i < j, and no omitted corpus record has a score greater than the    *)
(* score of a returned record.                                             *)
(***************************************************************************)
C3_Descending ==
    Returned =>
        /\ \A i, j \in 1..Len(results) :
              i < j => ScoreGE(results[i][2], results[j][2])
        /\ \A k \in Omitted : \A j \in 1..Len(results) :
              ~ScoreLT(results[j][2], scores[k][2])

\* C3 on the runs in which every score is defined
C3_WhenScoresDefined == AllDefined(scores) => C3_Descending

(***************************************************************************)
(* C4: tie stability.  Two records with equal scores are returned in       *)
(* their corpus order, and when the limit cuts a group of equal scores     *)
(* the earlier corpus records are the ones kept.                           *)
(***************************************************************************)
C4_TieStability ==
    Returned =>
        /\ \A i, j \in 1..Len(results) :
              (i < j /\ ScoreEQ(results[i][2], results[j][2]))
                  => results[i][1] < results[j][1]
        /\ \A k \in Omitted : \A j \in 1..Len(results) :
              ScoreEQ(results[j][2], scores[k][2])
                  => results[j][1] < scores[k][1]

\* C4 on the runs in which every score is defined
C4_WhenScoresDefined == AllDefined(scores) => C4_TieStability

(***************************************************************************)
(* C6: no undefined (NaN) score is ever appended to the score list, takes  *)
(* part in the sort or reaches the returned results.                       *)
(***************************************************************************)
C6_NoUndefinedScore == AllDefined(scores) /\ AllDefined(results)

(***************************************************************************)
(* C8: the literal scenario (corpus a.py [1,0], b.py [0,1], c.py           *)
(* [0.9,0.1], query [1,0], limit 2) returns a.py then c.py; the first      *)
(* returned identifier is a record of maximal cosine similarity; a record  *)
(* whose vector is a positive multiple of the query scores 1.              *)
(***************************************************************************)
LiteralScenario ==
    /\ embeddings = MkCorpus(<< <<1, 0>>, <<0, 1>>, <<9, 1>> >>)
    /\ query_embedding = <<1, 0>>
    /\ limit = 2

PositiveMultiple(v, q) ==
    /\ Len(v) = Len(q)
    /\ \E c \in 1..9 : \A k \in 1..Len(q) : v[k] = c * q[k]

\* the score stands for the number 1
IsOne(x) == x.dot > 0 /\ x.dot * x.dot = x.nn

C8_RankingCorrectness ==
    Returned =>
        /\ LiteralScenario => PathsOf(results) = <<1, 3>>
        /\ results # <<>> =>
              \A k \in 1..Len(embeddings) :
                  ~ScoreLT(results[1][2], ScoreOf(k))
        /\ \A k \in 1..Len(embeddings) :
              (/\ NormSq(query_embedding) # 0
               /\ PositiveMultiple(embeddings[k].embedding, query_embedding))
                  => IsOne(ScoreOf(k))

\* C8 on the runs in which every score is defined
C8_WhenScoresDefined == AllDefined(scores) => C8_RankingCorrectness

(***************************************************************************)
(* C5: a corpus record whose vector is not as long as the query vector     *)
(* aborts the run when the loop reaches it: every earlier record has been  *)
(* scored, that record gets no score, no record is skipped, nothing is     *)
(* returned and nothing is printed, wherever the record is in the corpus.  *)
(***************************************************************************)
Mismatched == { k \in 1..Len(embeddings) : ~Matches(k) }

FirstMismatched ==
    CHOOSE k \in Mismatched : \A j \in Mismatched : k <= j

C5_MismatchAborts ==
    /\ error = "dimension" => Mismatched # {}
    /\ (Embedded /\ Mismatched # {}) =>
          /\ pc \in {"score", "failed"}
          /\ Len(scores) < FirstMismatched
          /\ \A k \in 1..Len(scores) :
                scores[k] = <<embeddings[k].file_path, ScoreOf(k)>>
          /\ pc = "failed" =>
                (error = "dimension" /\ Len(scores) = FirstMismatched - 1)
          /\ (pc = "score" /\ Len(scores) = FirstMismatched - 1) =>
                /\ ENABLED ScoreMismatch
                /\ ~ENABLED ScoreRecord
                /\ ~ENABLED SortAndReturn
          /\ results = <<>>
          /\ stdout = <<>>

\* the run failed at the third record, after two records were scored
C5_Witness ==
    /\ pc = "failed"
    /\ error = "dimension"
    /\ Len(scores) = 2
    /\ FirstMismatched = 3

(***************************************************************************)
(* C7: standard output of a successful run is exactly the identifiers of   *)
(* the result, one per line, in ranked order, without scores; a line is    *)
(* written only after every record has been scored and the list sorted;    *)
(* a run that fails has written nothing.                                   *)
(***************************************************************************)
\* the score list as the loop of lines 62-65 leaves it
ScoredCorpus ==
    [k \in 1..Len(embeddings) |-> <<embeddings[k].file_path, ScoreOf(k)>>]

C7_OutputAfterRanking ==
    /\ Len(stdout) <= Len(results)
    /\ stdout = SubSeq(PathsOf(results), 1, Len(stdout))
    /\ stdout # <<>> =>
          /\ Returned
          /\ scores = ListSortReverse(ScoredCorpus)
          /\ results = SliceTo(scores, limit)
    /\ pc = "done" => stdout = PathsOf(results)
    /\ pc = "failed" => stdout = <<>>

\* a successful run that printed two of three records
C7_Witness ==
    /\ pc = "done"
    /\ Len(embeddings) = 3
    /\ Len(stdout) = 2

(***************************************************************************)
(* C9: every defined score lies in [-1, 1]: dot(a,b)^2 <= dot(a,a) *       *)
(* dot(b,b) for the score of every record against the query.               *)
(***************************************************************************)
InUnitInterval(x) == x.dot * x.dot <= x.nn

C10_QueryIndirection ==
    /\ ~QueryStepDone => ~fileOpened
    /\ QueryStepDone =>
          /\ fileOpened <=> EndsWith(query, TxtSuffix)
          /\ (EndsWith(query, TxtSuffix) /\ queryFileReadable)
                => query_text \in FileContents
          /\ ~EndsWith(query, TxtSuffix) => query_text = query
          /\ (EndsWith(query, TxtSuffix) /\ ~queryFileReadable) =>
                /\ pc = "failed"
                /\ error = "query_file"
                /\ ~modelLoaded
                /\ query_embedding = <<>>
                /\ scores = <<>>
                /\ results = <<>>
                /\ stdout = <<>>
    /\ error = "query_file" =>
          (EndsWith(query, TxtSuffix) /\ ~queryFileReadable)

\* the run failed on an unreadable query file
C10_Witness ==
    /\ pc = "failed"
    /\ error = "query_file"
    /\ fileOpened
    /\ embeddings # <<>>

====
